---------------------------- MODULE Spec2Model ----------------------------
(***************************************************************************)
(* Model of the camera/view controller of Source/ViewManager.cpp.          *)
(*                                                                         *)
(* The C++ floats are modelled in fixed point:                             *)
(*   angles (yaw, pitch, fov)         in 1/DegUnit degree   (0.1 degree)   *)
(*   cursor coordinates               in pixels                            *)
(*   direction vectors (front, up)    in 1/VecUnit          (0.001)        *)
(*   movementSpeed                    in 1/SpeedUnit        (0.1 per s)    *)
(*   time (glfwGetTime, deltaTime)    in 1/TimeUnit second  (0.1 s)        *)
(*   cameraPos                        in 1/(SpeedUnit*TimeUnit*VecUnit)    *)
(* so that speed * deltaTime * direction is a position without rounding.   *)
(***************************************************************************)
EXTENDS Integers, Sequences, FiniteSets, TLC

-----------------------------------------------------------------------------
(* Units of the fixed-point representation. *)
DegUnit   == 10
VecUnit   == 1000
SpeedUnit == 10
TimeUnit  == 10
PosUnit   == SpeedUnit * TimeUnit * VecUnit

(* Program constants. *)
WINDOW_WIDTH  == 1000
WINDOW_HEIGHT == 800
sensitivity   == 1      \* 0.1 degree per pixel = 1 angle unit per pixel
PitchLimit    == 890    \* 89.0 degrees
SpeedMin      == 1      \* 0.1
SpeedMax      == 100    \* 10.0
ScrollGain    == 5      \* 0.5 speed per scroll unit

LogPerspective  == "Switched to Perspective Projection"
LogOrthographic == "Switched to Orthographic Projection"

(* The movement keys ProcessKeyboardEvents polls. *)
MoveKeys == {"W", "A", "S", "D", "Q", "E"}

(* Bound of the model: the clock glfwGetTime() never exceeds MaxTime. *)
MaxTime == 5

-----------------------------------------------------------------------------
(* Vector and integer helpers (glm). *)
Min(a, b) == IF a < b THEN a ELSE b
Max(a, b) == IF a > b THEN a ELSE b

\* a / b rounded to the nearest integer, b > 0
RoundDiv(a, b) == (2 * a + b) \div (2 * b)

VAdd(a, b) == <<a[1] + b[1], a[2] + b[2], a[3] + b[3]>>
VSub(a, b) == <<a[1] - b[1], a[2] - b[2], a[3] - b[3]>>
VScale(k, a) == <<k * a[1], k * a[2], k * a[3]>>
Dot(a, b) == a[1] * b[1] + a[2] * b[2] + a[3] * b[3]
\* glm::cross of two vectors in 1/VecUnit, in 1/VecUnit
Cross(a, b) == <<RoundDiv(a[2] * b[3] - a[3] * b[2], VecUnit),
                 RoundDiv(a[3] * b[1] - a[1] * b[3], VecUnit),
                 RoundDiv(a[1] * b[2] - a[2] * b[1], VecUnit)>>

RECURSIVE SqrtIter(_, _)
SqrtIter(n, r) ==
    LET next == (r + n \div r) \div 2
    IN  IF next >= r THEN r ELSE SqrtIter(n, next)

\* floor of the square root of n >= 0
ISqrt(n) == IF n = 0 THEN 0 ELSE SqrtIter(n, n)

\* glm::normalize: the vector of length VecUnit in the direction of v
Normalize(v) ==
    LET len == ISqrt(Dot(v, v))
    IN  <<RoundDiv(v[1] * VecUnit, len),
          RoundDiv(v[2] * VecUnit, len),
          RoundDiv(v[3] * VecUnit, len)>>

-----------------------------------------------------------------------------
(* sin and cos of an angle in degrees (glm::radians, then sin/cos):        *)
(* VecUnit * sin(d degrees) for d = 0..90, interpolated between degrees.   *)
SinTable == <<
    0, 17, 35, 52, 70, 87, 105, 122, 139, 156, 174, 191, 208,
    225, 242, 259, 276, 292, 309, 326, 342, 358, 375, 391, 407, 423,
    438, 454, 469, 485, 500, 515, 530, 545, 559, 574, 588, 602, 616,
    629, 643, 656, 669, 682, 695, 707, 719, 731, 743, 755, 766, 777,
    788, 799, 809, 819, 829, 839, 848, 857, 866, 875, 883, 891, 899,
    906, 914, 921, 927, 934, 940, 946, 951, 956, 961, 966, 970, 974,
    978, 982, 985, 988, 990, 993, 995, 996, 998, 999, 999, 1000, 1000>>

\* a in 0 .. 90 degrees, in angle units
SinQuadrant(a) ==
    LET d == a \div DegUnit
        f == a % DegUnit
    IN  IF f = 0 THEN SinTable[d + 1]
        ELSE SinTable[d + 1]
             + RoundDiv((SinTable[d + 2] - SinTable[d + 1]) * f, DegUnit)

Sin(a) ==
    LET r == a % (360 * DegUnit)
    IN  IF r <= 90 * DegUnit THEN SinQuadrant(r)
        ELSE IF r <= 180 * DegUnit THEN SinQuadrant(180 * DegUnit - r)
        ELSE IF r <= 270 * DegUnit THEN -SinQuadrant(r - 180 * DegUnit)
        ELSE -SinQuadrant(360 * DegUnit - r)

Cos(a) == Sin(a + 90 * DegUnit)

-----------------------------------------------------------------------------
VARIABLES
    cameraPos, cameraFront, cameraUp,       \* camera position and orientation vectors
    lastX, lastY, firstMouse,               \* mouse input variables
    yaw, pitch, fov,                        \* camera rotation angles
    deltaTime, lastFrame,                   \* frame timing
    movementSpeed,                          \* scroll-controlled speed
    orthographicProjection,                 \* projection mode
    pKeyPressed, oKeyPressed,               \* previous state of the P and O keys
    windowShouldClose,                      \* the GLFW window's close flag
    call,                                   \* the handler that ran last, with its arguments
    console,                                \* the lines it wrote to std::cout
    uniforms                                \* the values it sent to the shader manager

\* the scene manager (SceneManager.cpp) and what it drives
VARIABLES
    m_textureIDs,                           \* the texture slots, each an (ID, tag) pair
    m_loadedTextures,                       \* the number of slots in use
    m_objectMaterials,                      \* the defined materials, in order
    glNames,                                \* the texture names glGenTextures has handed out
    shader,                                 \* the shader's texture and material uniforms
    scene,                                  \* the scene-manager call that ran last, with its results
    fault,                                  \* whether a write has left the slot array
    pc                                      \* the statement of PrepareScene and RenderScene to run next

viewVars == <<cameraPos, cameraFront, cameraUp, lastX, lastY, firstMouse,
              yaw, pitch, fov, deltaTime, lastFrame, movementSpeed,
              orthographicProjection, pKeyPressed, oKeyPressed,
              windowShouldClose, call, console, uniforms>>

sceneVars == <<m_textureIDs, m_loadedTextures, m_objectMaterials, glNames,
               shader, scene, fault, pc>>

vars == <<cameraPos, cameraFront, cameraUp, lastX, lastY, firstMouse,
          yaw, pitch, fov, deltaTime, lastFrame, movementSpeed,
          orthographicProjection, pKeyPressed, oKeyPressed,
          windowShouldClose, call, console, uniforms,
          m_textureIDs, m_loadedTextures, m_objectMaterials, glNames,
          shader, scene, fault, pc>>

cameraVars == <<cameraPos, cameraFront, cameraUp, yaw, pitch, fov>>
mouseVars  == <<lastX, lastY, firstMouse>>
frameVars  == <<deltaTime, lastFrame, orthographicProjection, pKeyPressed,
                oKeyPressed, windowShouldClose>>

\* a handler invocation: the cursor position of Mouse_Position_Callback, the
\* vertical offset of Mouse_Scroll_Callback, or what glfwGetTime and glfwGetKey
\* returned to PrepareSceneView
Call(op, x, y, yoffset, time, ks) ==
    [op |-> op, x |-> x, y |-> y, yoffset |-> yoffset, time |-> time, keys |-> ks]

\* the slots of the texture array; colours and strengths of materials are in
\* 1/MatUnit
MaxTextureSlots == 16
MatUnit == 100

\* an OBJECT_MATERIAL
Material(tag, ambientStrength, ambientColor, diffuseColor, specularColor, shininess) ==
    [tag |-> tag, ambientStrength |-> ambientStrength, ambientColor |-> ambientColor,
     diffuseColor |-> diffuseColor, specularColor |-> specularColor,
     shininess |-> shininess]

\* all fields zero: the material uniforms of a freshly linked shader
NoMaterial == Material("", 0, <<0, 0, 0>>, <<0, 0, 0>>, <<0, 0, 0>>, 0)

\* a scene-manager invocation and what it returned: the boolean of
\* CreateGLTexture and FindMaterial, the values of FindTextureID and
\* FindTextureSlot, the caller's OBJECT_MATERIAL before and after FindMaterial,
\* and the lines written to std::cout
SceneCall(op, filename, tag, ok, id, slot, uninit, material, log) ==
    [op |-> op, filename |-> filename, tag |-> tag, ok |-> ok, id |-> id,
     slot |-> slot, uninit |-> uninit, material |-> material, log |-> log]

Init ==
    /\ m_textureIDs = [i \in 0 .. MaxTextureSlots - 1 |-> [ID |-> 0, tag |-> ""]]
    /\ m_loadedTextures = 0
    /\ m_objectMaterials = <<>>
    /\ glNames = 0
    /\ shader = [bUseTexture |-> FALSE, objectTexture |-> 0, material |-> NoMaterial]
    /\ scene = SceneCall("none", "", "", FALSE, -1, -1, NoMaterial, NoMaterial, <<>>)
    /\ fault = "none"
    /\ pc = 1
    /\ cameraPos = <<0, 3 * PosUnit, 12 * PosUnit>>
    /\ cameraFront = <<0, -200, -1000>>
    /\ cameraUp = <<0, 1000, 0>>
    /\ lastX = WINDOW_WIDTH \div 2
    /\ lastY = WINDOW_HEIGHT \div 2
    /\ firstMouse = TRUE
    /\ yaw = -90 * DegUnit
    /\ pitch = 0
    /\ fov = 45 * DegUnit
    /\ deltaTime = 0
    /\ lastFrame = 0
    /\ movementSpeed = 25
    /\ orthographicProjection = FALSE
    /\ pKeyPressed = FALSE
    /\ oKeyPressed = FALSE
    /\ windowShouldClose = FALSE
    /\ call = Call("none", 0, 0, 0, 0, {})
    /\ console = <<>>
    /\ uniforms = <<>>

-----------------------------------------------------------------------------
(* Mouse_Position_Callback *)

\* the clamp without its lower half
ClampPitchUpperOnly(p) == IF p > PitchLimit THEN PitchLimit ELSE p

ClampPitch(p) ==
    LET q == IF p > PitchLimit THEN PitchLimit ELSE p
    IN  IF q < -PitchLimit THEN -PitchLimit ELSE q

\* the direction of (yaw, pitch), before normalisation
Direction(y, p) ==
    <<RoundDiv(Cos(y) * Cos(p), VecUnit),
      Sin(p),
      RoundDiv(Sin(y) * Cos(p), VecUnit)>>

\* the yaw constrained like the pitch
NewYawClamped(xoffset) == ClampPitch(yaw + xoffset)

\* yaw += xoffset
NewYaw(xoffset) == yaw + xoffset

\* the baseline the offsets are taken from: the sample itself on the first event
BaselineX(xpos) == IF firstMouse THEN xpos ELSE lastX

\* the baseline without the first-sample handling
BaselineYStale(ypos) == lastY

BaselineY(ypos) == IF firstMouse THEN ypos ELSE lastY

Mouse_Position_Callback(xpos, ypos) ==
    LET xoffset == (xpos - BaselineX(xpos)) * sensitivity
        yoffset == (BaselineY(ypos) - ypos) * sensitivity
    IN  /\ firstMouse' = FALSE
        /\ lastX' = xpos
        /\ lastY' = ypos
        /\ yaw' = NewYaw(xoffset)
        /\ pitch' = ClampPitch(pitch + yoffset)
        /\ cameraFront' = Normalize(Direction(yaw', pitch'))
        /\ call' = Call("cursor", xpos, ypos, 0, 0, {})
        /\ console' = <<>>
        /\ uniforms' = <<>>
        /\ UNCHANGED <<cameraPos, cameraUp, fov, movementSpeed>>
        /\ UNCHANGED frameVars
        /\ UNCHANGED sceneVars

-----------------------------------------------------------------------------
(* Mouse_Scroll_Callback *)

\* the clamp without its upper half
ClampSpeedLowerOnly(s) == IF s < SpeedMin THEN SpeedMin ELSE s

ClampSpeed(s) ==
    LET t == IF s < SpeedMin THEN SpeedMin ELSE s
    IN  IF t > SpeedMax THEN SpeedMax ELSE t

\* the scroll wheel zooming the field of view instead
Mouse_Scroll_Zoom(xoffset, yoffset) ==
    /\ fov' = Max(1 * DegUnit, Min(45 * DegUnit, fov - yoffset * DegUnit))
    /\ call' = Call("scroll", 0, 0, yoffset, 0, {})
    /\ console' = <<>>
    /\ uniforms' = <<>>
    /\ UNCHANGED <<cameraPos, cameraFront, cameraUp, yaw, pitch, movementSpeed>>
    /\ UNCHANGED mouseVars
    /\ UNCHANGED frameVars
    /\ UNCHANGED sceneVars

Mouse_Scroll_Callback(xoffset, yoffset) ==
    /\ movementSpeed' = ClampSpeed(movementSpeed + yoffset * ScrollGain)
    /\ call' = Call("scroll", 0, 0, yoffset, 0, {})
    /\ console' = <<>>
    /\ uniforms' = <<>>
    /\ UNCHANGED cameraVars
    /\ UNCHANGED mouseVars
    /\ UNCHANGED frameVars
    /\ UNCHANGED sceneVars

-----------------------------------------------------------------------------
(* ProcessKeyboardEvents *)

\* the close flag following the key's level
CloseWhileHeld(ks) == "ESCAPE" \in ks

\* glfwSetWindowShouldClose(m_pWindow, true) when the exit key is down
CloseRequested(ks) == IF "ESCAPE" \in ks THEN TRUE ELSE windowShouldClose

\* the speed taken per frame, not per second
CameraSpeedPerFrame(dt) == movementSpeed * TimeUnit

\* movementSpeed * deltaTime, for the frame whose elapsed time is dt
CameraSpeed(dt) == movementSpeed * dt

Right == Normalize(Cross(cameraFront, cameraUp))

MoveW(p, ks, cs) == IF "W" \in ks THEN VAdd(p, VScale(cs, cameraFront)) ELSE p
MoveS(p, ks, cs) == IF "S" \in ks THEN VSub(p, VScale(cs, cameraFront)) ELSE p
MoveA(p, ks, cs) == IF "A" \in ks THEN VSub(p, VScale(cs, Right)) ELSE p
MoveD(p, ks, cs) == IF "D" \in ks THEN VAdd(p, VScale(cs, Right)) ELSE p
MoveQ(p, ks, cs) == IF "Q" \in ks THEN VAdd(p, VScale(cs, cameraUp)) ELSE p
MoveE(p, ks, cs) == IF "E" \in ks THEN VSub(p, VScale(cs, cameraUp)) ELSE p

\* the position after the six movement keys, applied in the order W S A D Q E
Moved(p, ks, cs) ==
    MoveE(MoveQ(MoveD(MoveA(MoveS(MoveW(p, ks, cs), ks, cs), ks, cs), ks, cs), ks, cs), ks, cs)

\* the switch fired by the key's level
PLevel(ks) == "P" \in ks

\* the key fires its switch: it is down and was not down at the previous poll
PEdge(ks) == "P" \in ks /\ ~pKeyPressed

\* the O key sharing the P key's previous-state flag
OEdgeSharedFlag(ks) == "O" \in ks /\ ~pKeyPressed

OEdge(ks) == "O" \in ks /\ ~oKeyPressed

\* the frame's speed computed in place: movementSpeed *= deltaTime
ProcessKeyboardEventsInPlace(ks, dt) ==
    /\ windowShouldClose' = CloseRequested(ks)
    /\ movementSpeed' = RoundDiv(movementSpeed * dt, TimeUnit)
    /\ cameraPos' = Moved(cameraPos, ks, movementSpeed' * TimeUnit)
    /\ pKeyPressed' = ("P" \in ks)
    /\ oKeyPressed' = ("O" \in ks)
    /\ orthographicProjection' =
          IF OEdge(ks) THEN TRUE
          ELSE IF PEdge(ks) THEN FALSE
          ELSE orthographicProjection
    /\ console' = (IF PEdge(ks) THEN <<LogPerspective>> ELSE <<>>)
                  \o (IF OEdge(ks) THEN <<LogOrthographic>> ELSE <<>>)

\* the O key handled before the P key
ProcessKeyboardEventsOFirst(ks, dt) ==
    /\ windowShouldClose' = CloseRequested(ks)
    /\ cameraPos' = Moved(cameraPos, ks, CameraSpeed(dt))
    /\ pKeyPressed' = ("P" \in ks)
    /\ oKeyPressed' = ("O" \in ks)
    /\ orthographicProjection' =
          IF PEdge(ks) THEN FALSE
          ELSE IF OEdge(ks) THEN TRUE
          ELSE orthographicProjection
    /\ console' = (IF OEdge(ks) THEN <<LogOrthographic>> ELSE <<>>)
                  \o (IF PEdge(ks) THEN <<LogPerspective>> ELSE <<>>)
    /\ UNCHANGED movementSpeed

ProcessKeyboardEvents(ks, dt) ==
    /\ windowShouldClose' = CloseRequested(ks)
    /\ cameraPos' = Moved(cameraPos, ks, CameraSpeed(dt))
    /\ pKeyPressed' = ("P" \in ks)
    /\ oKeyPressed' = ("O" \in ks)
    /\ orthographicProjection' =
          IF OEdge(ks) THEN TRUE
          ELSE IF PEdge(ks) THEN FALSE
          ELSE orthographicProjection
    /\ console' = (IF PEdge(ks) THEN <<LogPerspective>> ELSE <<>>)
                  \o (IF OEdge(ks) THEN <<LogOrthographic>> ELSE <<>>)
    /\ UNCHANGED movementSpeed

-----------------------------------------------------------------------------
(* PrepareSceneView *)

\* glm::lookAt, kept as the triple that determines the matrix
LookAt(eye, center, up) == [eye |-> eye, center |-> center, up |-> up]

\* glm::ortho and glm::perspective, kept as the parameters that determine the
\* matrix; lengths in 1/VecUnit
Ortho(left, right, bottom, top, near, far) ==
    [kind |-> "orthographic", left |-> left, right |-> right,
     bottom |-> bottom, top |-> top, fovy |-> 0, aspect |-> <<0, 1>>,
     near |-> near, far |-> far]

Perspective(fovy, aspectW, aspectH, near, far) ==
    [kind |-> "perspective", left |-> 0, right |-> 0, bottom |-> 0, top |-> 0,
     fovy |-> fovy, aspect |-> <<aspectW, aspectH>>, near |-> near, far |-> far]

\* the perspective matrix whatever the mode
ProjectionPerspectiveOnly(ortho) ==
    Perspective(fov, WINDOW_WIDTH, WINDOW_HEIGHT, VecUnit \div 10, 100 * VecUnit)

Projection(ortho) ==
    IF ortho
    THEN LET orthoSize == 15 * VecUnit
         IN  Ortho(-((orthoSize * WINDOW_WIDTH) \div WINDOW_HEIGHT) \div 2,
                   ((orthoSize * WINDOW_WIDTH) \div WINDOW_HEIGHT) \div 2,
                   -(orthoSize \div 2), orthoSize \div 2,
                   VecUnit \div 10, 100 * VecUnit)
    ELSE Perspective(fov, WINDOW_WIDTH, WINDOW_HEIGHT, VecUnit \div 10, 100 * VecUnit)

\* cameraPos + cameraFront, with the front brought to the position's unit
Center(pos, front) == VAdd(pos, VScale(SpeedUnit * TimeUnit, front))

\* the matrices computed before the keys are processed
PrepareSceneViewMatricesFirst(currentFrame, ks) ==
    /\ currentFrame >= lastFrame
    /\ currentFrame <= MaxTime
    /\ deltaTime' = currentFrame - lastFrame
    /\ lastFrame' = currentFrame
    /\ uniforms' = <<[name |-> "view",
                       value |-> LookAt(cameraPos, Center(cameraPos, cameraFront), cameraUp)],
                      [name |-> "projection",
                       value |-> Projection(orthographicProjection)],
                      [name |-> "viewPosition", value |-> cameraPos]>>
    /\ ProcessKeyboardEvents(ks, deltaTime')
    /\ call' = Call("frame", 0, 0, 0, currentFrame, ks)
    /\ UNCHANGED <<cameraFront, cameraUp, yaw, pitch, fov>>
    /\ UNCHANGED mouseVars
    /\ UNCHANGED sceneVars

PrepareSceneView(currentFrame, ks) ==
    /\ currentFrame >= lastFrame
    /\ currentFrame <= MaxTime
    /\ deltaTime' = currentFrame - lastFrame
    /\ lastFrame' = currentFrame
    /\ ProcessKeyboardEvents(ks, deltaTime')
    /\ uniforms' = <<[name |-> "view",
                       value |-> LookAt(cameraPos', Center(cameraPos', cameraFront), cameraUp)],
                      [name |-> "projection",
                       value |-> Projection(orthographicProjection')],
                      [name |-> "viewPosition", value |-> cameraPos']>>
    /\ call' = Call("frame", 0, 0, 0, currentFrame, ks)
    /\ UNCHANGED <<cameraFront, cameraUp, yaw, pitch, fov>>
    /\ UNCHANGED mouseVars
    /\ UNCHANGED sceneVars

-----------------------------------------------------------------------------
(* SceneManager: textures *)

\* stbi_load: the image and its channel count, by the file named; no image for
\* a file that cannot be read or decoded
stbi_load(filename) ==
    CASE filename = "rgb.jpg"  -> [image |-> TRUE, colorChannels |-> 3]
      [] filename = "rgba.png" -> [image |-> TRUE, colorChannels |-> 4]
      [] filename = "grey.jpg" -> [image |-> TRUE, colorChannels |-> 1]
      [] OTHER                 -> [image |-> FALSE, colorChannels |-> 0]

LogLoaded(filename, colorChannels) ==
    <<"Successfully loaded image:", filename, colorChannels>>
LogChannels(colorChannels) ==
    <<"Not implemented to handle image with ", colorChannels, " channels">>
LogCouldNotLoad(filename) == <<"Could not load image:", filename>>

\* the search of FindTextureID and FindTextureSlot: the first index from the
\* given one, below m_loadedTextures, whose tag compares equal, or -1
RECURSIVE FindTextureFrom(_, _)
FindTextureFrom(index, tag) ==
    IF index < m_loadedTextures
    THEN IF m_textureIDs[index].tag = tag
         THEN index
         ELSE FindTextureFrom(index + 1, tag)
    ELSE -1

\* the search run from the last slot downwards
RECURSIVE FindTextureDown(_, _)
FindTextureDown(index, tag) ==
    IF index >= 0
    THEN IF m_textureIDs[index].tag = tag
         THEN index
         ELSE FindTextureDown(index - 1, tag)
    ELSE -1

\* the latest slot of the tag instead of the earliest
FindTextureSlotLast(tag) == FindTextureDown(m_loadedTextures - 1, tag)

FindTextureSlot(tag) == FindTextureFrom(0, tag)

FindTextureID(tag) ==
    LET index == FindTextureFrom(0, tag)
    IN  IF index = -1 THEN -1 ELSE m_textureIDs[index].ID

\* m_textureIDs[m_loadedTextures] = (textureID, tag); m_loadedTextures++.
\* The index is not compared with the size of the array: with every slot in
\* use the write lands outside the array, which is undefined behaviour; the
\* process then either runs on with whatever lay behind the array overwritten
\* or is stopped by the system.
Store(textureID, tag) ==
    IF m_loadedTextures < MaxTextureSlots
    THEN /\ m_textureIDs' = [m_textureIDs EXCEPT ![m_loadedTextures] =
                                 [ID |-> textureID, tag |-> tag]]
         /\ m_loadedTextures' = m_loadedTextures + 1
         /\ fault' = fault
    ELSE \/ /\ fault' = "overrun"
            /\ m_loadedTextures' = m_loadedTextures + 1
            /\ UNCHANGED m_textureIDs
         \/ /\ fault' = "crash"
            /\ UNCHANGED <<m_textureIDs, m_loadedTextures>>

\* the texture registered before its channel count is looked at
CreateGLTextureStoreFirst(filename, tag) ==
    LET img == stbi_load(filename)
        textureID == glNames + 1
    IN  /\ fault = "none"
        /\ \/ /\ ~img.image
              /\ scene' = SceneCall("CreateGLTexture", filename, tag, FALSE, -1, -1,
                                    NoMaterial, NoMaterial, <<LogCouldNotLoad(filename)>>)
              /\ UNCHANGED <<m_textureIDs, m_loadedTextures, glNames, fault>>
           \/ /\ img.image
              /\ glNames' = textureID
              /\ Store(textureID, tag)
              /\ scene' = SceneCall("CreateGLTexture", filename, tag,
                                    img.colorChannels \in {3, 4} /\ fault' # "crash",
                                    -1, -1, NoMaterial, NoMaterial,
                                    IF img.colorChannels \in {3, 4}
                                    THEN <<LogLoaded(filename, img.colorChannels)>>
                                    ELSE <<LogLoaded(filename, img.colorChannels),
                                           LogChannels(img.colorChannels)>>)
        /\ UNCHANGED <<m_objectMaterials, shader>>
        /\ UNCHANGED viewVars

CreateGLTexture(filename, tag) ==
    LET img == stbi_load(filename)
        textureID == glNames + 1
    IN  /\ fault = "none"
        /\ \/ /\ ~img.image
              /\ scene' = SceneCall("CreateGLTexture", filename, tag, FALSE, -1, -1,
                                    NoMaterial, NoMaterial, <<LogCouldNotLoad(filename)>>)
              /\ UNCHANGED <<m_textureIDs, m_loadedTextures, glNames, fault>>
           \/ /\ img.image
              /\ img.colorChannels \notin {3, 4}
              /\ glNames' = textureID
              /\ scene' = SceneCall("CreateGLTexture", filename, tag, FALSE, -1, -1,
                                    NoMaterial, NoMaterial,
                                    <<LogLoaded(filename, img.colorChannels),
                                      LogChannels(img.colorChannels)>>)
              /\ UNCHANGED <<m_textureIDs, m_loadedTextures, fault>>
           \/ /\ img.image
              /\ img.colorChannels \in {3, 4}
              /\ glNames' = textureID
              /\ Store(textureID, tag)
              /\ scene' = SceneCall("CreateGLTexture", filename, tag, fault' # "crash",
                                    -1, -1, NoMaterial, NoMaterial,
                                    <<LogLoaded(filename, img.colorChannels)>>)
        /\ UNCHANGED <<m_objectMaterials, shader>>
        /\ UNCHANGED viewVars

\* a caller asking for the ID and the slot of a tag
FindTexture(tag) ==
    /\ fault = "none"
    /\ scene' = SceneCall("FindTexture", "", tag, FALSE, FindTextureID(tag),
                          FindTextureSlot(tag), NoMaterial, NoMaterial, <<>>)
    /\ UNCHANGED <<m_textureIDs, m_loadedTextures, m_objectMaterials, glNames,
                   shader, fault>>
    /\ UNCHANGED viewVars

\* texturing left off and the sampler left alone for a tag that is not found
SetShaderTextureChecked(textureTag) ==
    LET textureID == FindTextureSlot(textureTag)
    IN  /\ fault = "none"
        /\ shader' = IF textureID = -1
                     THEN [shader EXCEPT !.bUseTexture = FALSE]
                     ELSE [shader EXCEPT !.bUseTexture = TRUE,
                                         !.objectTexture = textureID]
        /\ scene' = SceneCall("SetShaderTexture", "", textureTag, FALSE, -1, textureID,
                              NoMaterial, NoMaterial, <<>>)
        /\ UNCHANGED <<m_textureIDs, m_loadedTextures, m_objectMaterials, glNames, fault>>
        /\ UNCHANGED viewVars

SetShaderTexture(textureTag) ==
    LET textureID == FindTextureSlot(textureTag)
    IN  /\ fault = "none"
        /\ shader' = [shader EXCEPT !.bUseTexture = TRUE, !.objectTexture = textureID]
        /\ scene' = SceneCall("SetShaderTexture", "", textureTag, FALSE, -1, textureID,
                              NoMaterial, NoMaterial, <<>>)
        /\ UNCHANGED <<m_textureIDs, m_loadedTextures, m_objectMaterials, glNames, fault>>
        /\ UNCHANGED viewVars

-----------------------------------------------------------------------------
(* SceneManager: materials *)

\* the materials DefineObjectMaterials appends
DefinedMaterials ==
    << Material("cake",     20, <<10, 5, 2>>,   <<80, 60, 40>>, <<20, 20, 20>>, 400),
       Material("frosting", 30, <<15, 15, 12>>, <<90, 90, 80>>, <<40, 40, 40>>, 1600),
       Material("berry",    25, <<8, 2, 8>>,    <<60, 30, 70>>, <<50, 50, 50>>, 3200),
       Material("cream",    30, <<20, 20, 18>>, <<95, 95, 90>>, <<60, 60, 60>>, 6400),
       Material("plate",    20, <<10, 10, 10>>, <<80, 80, 80>>, <<30, 30, 30>>, 2400),
       Material("table",    15, <<5, 5, 5>>,    <<40, 40, 40>>, <<10, 10, 10>>, 200),
       Material("leaf",     20, <<2, 8, 2>>,    <<20, 60, 20>>, <<10, 20, 10>>, 400),
       Material("caramel",  30, <<15, 10, 5>>,  <<90, 60, 20>>, <<80, 70, 60>>, 6400) >>

\* the most materials the vector is let grow to
MaxMaterials == 8

DefineObjectMaterials ==
    /\ fault = "none"
    /\ Len(m_objectMaterials) + Len(DefinedMaterials) <= MaxMaterials
    /\ m_objectMaterials' = m_objectMaterials \o DefinedMaterials
    /\ scene' = SceneCall("DefineObjectMaterials", "", "", FALSE, -1, -1,
                          NoMaterial, NoMaterial, <<>>)
    /\ UNCHANGED <<m_textureIDs, m_loadedTextures, glNames, shader, fault>>
    /\ UNCHANGED viewVars

\* what an OBJECT_MATERIAL that was never assigned may hold
Uninitialized ==
    { NoMaterial,
      Material("?", 7, <<7, 7, 7>>, <<7, 7, 7>>, <<7, 7, 7>>, 7) }

\* the five fields FindMaterial copies; the tag is not copied
CopyFields(material, from) ==
    [material EXCEPT !.ambientColor = from.ambientColor,
                     !.ambientStrength = from.ambientStrength,
                     !.diffuseColor = from.diffuseColor,
                     !.specularColor = from.specularColor,
                     !.shininess = from.shininess]

RECURSIVE FindMaterialFrom(_, _, _)
FindMaterialFrom(index, tag, material) ==
    IF index <= Len(m_objectMaterials)
    THEN IF m_objectMaterials[index].tag = tag
         THEN [bFound |-> TRUE, material |-> CopyFields(material, m_objectMaterials[index])]
         ELSE FindMaterialFrom(index + 1, tag, material)
    ELSE [bFound |-> FALSE, material |-> material]

\* the record cleared when the tag is not found
FindMaterialClearing(tag, material) ==
    LET r == FindMaterialFrom(1, tag, material)
    IN  IF r.bFound THEN r ELSE [bFound |-> FALSE, material |-> NoMaterial]

\* the result and the caller's record after the call
FindMaterial(tag, material) ==
    IF Len(m_objectMaterials) = 0
    THEN [bFound |-> FALSE, material |-> material]
    ELSE FindMaterialFrom(1, tag, material)

\* the material sent whether or not the tag was found
SetShaderMaterialUnchecked(materialTag) ==
    \E uninit \in Uninitialized :
        LET r == FindMaterial(materialTag, uninit)
        IN  /\ fault = "none"
            /\ shader' = [shader EXCEPT !.material = [r.material EXCEPT !.tag = ""]]
            /\ scene' = SceneCall("SetShaderMaterial", "", materialTag, r.bFound, -1, -1,
                                  uninit, r.material, <<>>)
            /\ UNCHANGED <<m_textureIDs, m_loadedTextures, m_objectMaterials,
                           glNames, fault>>
            /\ UNCHANGED viewVars

SetShaderMaterial(materialTag) ==
    \E uninit \in Uninitialized :
        LET r == IF Len(m_objectMaterials) > 0
                 THEN FindMaterial(materialTag, uninit)
                 ELSE [bFound |-> FALSE, material |-> uninit]
        IN  /\ fault = "none"
            /\ shader' = IF r.bFound
                         THEN [shader EXCEPT !.material = [r.material EXCEPT !.tag = ""]]
                         ELSE shader
            /\ scene' = SceneCall("SetShaderMaterial", "", materialTag, r.bFound, -1, -1,
                                  uninit, r.material, <<>>)
            /\ UNCHANGED <<m_textureIDs, m_loadedTextures, m_objectMaterials,
                           glNames, fault>>
            /\ UNCHANGED viewVars

-----------------------------------------------------------------------------
(* The events the window system delivers, drawn from the given sets:       *)
(* cursor coordinates XS x YS, scroll offsets DS, and frames FS, each the  *)
(* pair of the time since the previous frame and the set of held keys.     *)
Events(XS, YS, DS, FS) ==
    \/ \E x \in XS, y \in YS : Mouse_Position_Callback(x, y)
    \/ \E d \in DS : Mouse_Scroll_Callback(0, d)
    \/ \E f \in FS : PrepareSceneView(lastFrame + f[1], f[2])

\* projection keys and the scroll wheel, the camera at rest
Next ==
    Events({500, 600}, {400}, {-12, -3, 12},
           {0, 5} \X {{}, {"P"}, {"O"}, {"P", "O"}, {"ESCAPE"}})

Spec == Init /\ [][Next]_vars

\* the mouse look
NextLook ==
    Events({400, 500, 600}, {0, 400, 900}, {12}, {0, 5} \X {{}, {"P"}})

SpecLook == Init /\ [][NextLook]_vars

\* the movement keys: every combination in a frame of no duration, and
\* some in a frame of half a second
NextMove ==
    Events({500, 600}, {400}, {-12},
           ({0} \X SUBSET MoveKeys)
           \cup ({5} \X {{}, {"W"}, {"S"}, {"A"}, {"Q"}, {"W", "D"},
                         {"E", "P"}, {"ESCAPE"}}))

SpecMove == Init /\ [][NextMove]_vars

\* frames that move, switch the mode and ask to close, one after the other
NextFrame ==
    Events({500, 600}, {400}, {-12},
           {0, 5} \X {{}, {"W"}, {"P"}, {"O"}, {"W", "O", "ESCAPE"}})

SpecFrame == Init /\ [][NextFrame]_vars

-----------------------------------------------------------------------------
(* PrepareScene and RenderScene *)

\* the textures PrepareScene loads: path and tag
PrepareSceneLoads ==
    << <<"textures/blueberry_v1.1.jpg", "blueberry">>,
       <<"textures/whipped_cream2.jpg", "whipped_cream">>,
       <<"textures/strawberry1.jpg", "strawberry">>,
       <<"textures/carrot_cake.jpg", "carrot_cake">>,
       <<"textures/frosting1.jpg", "frosting">>,
       <<"textures/plate.jpg", "plate">>,
       <<"textures/tablecloth.jpg", "tablecloth">>,
       <<"textures/caramel.jpg", "caramel">> >>

\* the draws of RenderScene, in order: texture tag, material tag, mesh
RenderSceneDraws ==
    << <<"tablecloth", "table", "DrawPlaneMesh">>,
       <<"plate", "plate", "DrawCylinderMesh">>,
       <<"carrot_cake", "cake", "DrawPrismMesh">>,
       <<"frosting", "frosting", "DrawPrismMesh">>,
       <<"carrot_cake", "cake", "DrawPrismMesh">>,
       <<"frosting", "frosting", "DrawPrismMesh">>,
       <<"carrot_cake", "cake", "DrawPrismMesh">>,
       <<"frosting", "frosting", "DrawPrismMesh">>,
       <<"frosting", "frosting", "DrawBoxMesh">>,
       <<"whipped_cream", "cream", "DrawSphereMesh">>,
       <<"whipped_cream", "cream", "DrawSphereMesh">>,
       <<"whipped_cream", "cream", "DrawSphereMesh">>,
       <<"strawberry", "berry", "DrawSphereMesh">>,
       <<"blueberry", "berry", "DrawSphereMesh">>,
       <<"blueberry", "berry", "DrawSphereMesh">>,
       <<"blueberry", "berry", "DrawSphereMesh">>,
       <<"blueberry", "berry", "DrawSphereMesh">>,
       <<"blueberry", "berry", "DrawSphereMesh">>,
       <<"blueberry", "berry", "DrawSphereMesh">>,
       <<"blueberry", "berry", "DrawSphereMesh">>,
       <<"blueberry", "berry", "DrawSphereMesh">>,
       <<"blueberry", "berry", "DrawSphereMesh">>,
       <<"caramel", "caramel", "DrawBoxMesh">>,
       <<"caramel", "caramel", "DrawSphereMesh">>,
       <<"caramel", "caramel", "DrawSphereMesh">>,
       <<"caramel", "caramel", "DrawBoxMesh">>,
       <<"caramel", "caramel", "DrawSphereMesh">>,
       <<"caramel", "caramel", "DrawSphereMesh">>,
       <<"caramel", "caramel", "DrawBoxMesh">>,
       <<"caramel", "caramel", "DrawSphereMesh">>,
       <<"caramel", "caramel", "DrawSphereMesh">>,
       <<"caramel", "caramel", "DrawBoxMesh">>,
       <<"caramel", "caramel", "DrawSphereMesh">>,
       <<"caramel", "caramel", "DrawSphereMesh">>,
       <<"caramel", "caramel", "DrawBoxMesh">>,
       <<"caramel", "caramel", "DrawSphereMesh">>,
       <<"caramel", "caramel", "DrawSphereMesh">>,
       <<"caramel", "caramel", "DrawBoxMesh">>,
       <<"caramel", "caramel", "DrawSphereMesh">>,
       <<"caramel", "caramel", "DrawSphereMesh">> >>

\* a statement of the two functions
Stmt(op, a) == [op |-> op, arg |-> a]

\* the three statements of a draw that touch the shader: SetShaderTexture,
\* SetShaderMaterial and the mesh's draw call
DrawStmts(d) ==
    << Stmt("SetShaderTexture", d[1]), Stmt("SetShaderMaterial", d[2]),
       Stmt("Draw", d[3]) >>

RECURSIVE RenderSceneFrom(_)
RenderSceneFrom(i) ==
    IF i > Len(RenderSceneDraws) THEN <<>>
    ELSE DrawStmts(RenderSceneDraws[i]) \o RenderSceneFrom(i + 1)

\* PrepareScene, once, without the caramel texture
PrepareSceneNoCaramel ==
    [i \in 1 .. Len(PrepareSceneLoads) - 1 |->
        Stmt("CreateGLTexture", PrepareSceneLoads[i][2])]
    \o << Stmt("DefineObjectMaterials", "") >>

\* PrepareScene, once: the loads, then the materials
PrepareScene ==
    [i \in 1 .. Len(PrepareSceneLoads) |->
        Stmt("CreateGLTexture", PrepareSceneLoads[i][2])]
    \o << Stmt("DefineObjectMaterials", "") >>

\* RenderScene, every frame
RenderScene == RenderSceneFrom(1)

Program == PrepareScene \o RenderScene

\* after the last draw of a frame comes the first draw of the next
Advance == IF pc = Len(Program) THEN Len(PrepareScene) + 1 ELSE pc + 1

\* a mesh drawn with the shader as it is set at that moment
Draw(mesh) ==
    /\ fault = "none"
    /\ scene' = SceneCall(mesh, "", "", shader.bUseTexture, -1, shader.objectTexture,
                          NoMaterial, shader.material, <<>>)
    /\ UNCHANGED <<m_textureIDs, m_loadedTextures, m_objectMaterials, glNames,
                   shader, fault>>
    /\ UNCHANGED viewVars

\* The next statement of the program; a load finds at its path one of the
\* images FS.
Run(FS) ==
    \/ /\ Program[pc].op = "CreateGLTexture"
       /\ \E f \in FS : CreateGLTexture(f, Program[pc].arg)
       /\ pc' = Advance
    \/ /\ Program[pc].op = "DefineObjectMaterials"
       /\ DefineObjectMaterials
       /\ pc' = Advance
    \/ /\ Program[pc].op = "SetShaderTexture"
       /\ SetShaderTexture(Program[pc].arg)
       /\ pc' = Advance
    \/ /\ Program[pc].op = "SetShaderMaterial"
       /\ SetShaderMaterial(Program[pc].arg)
       /\ pc' = Advance
    \/ /\ Program[pc].op = "Draw"
       /\ Draw(Program[pc].arg)
       /\ pc' = Advance

\* every image readable or missing
NextRender == Run({"rgb.jpg", "rgba.png", "missing.jpg"})

SpecRender == Init /\ [][NextRender]_vars

\* The calls made on the scene manager: loads of the files FS under the tags
\* LS while fewer than limit texture names are handed out, lookups and uses of
\* the texture tags TS and of the material tags MS.
SceneEvents(FS, LS, TS, MS, limit) ==
    \/ \E f \in FS, t \in LS :
          glNames < limit /\ CreateGLTexture(f, t) /\ UNCHANGED pc
    \/ \E t \in TS : FindTexture(t) /\ UNCHANGED pc
    \/ \E t \in TS : SetShaderTexture(t) /\ UNCHANGED pc
    \/ DefineObjectMaterials /\ UNCHANGED pc
    \/ \E t \in MS : SetShaderMaterial(t) /\ UNCHANGED pc

\* the most texture names handed out in the scene specification
MaxNames == 3

\* loads that succeed and fail under two tags, lookups of these and of a tag
\* never loaded, materials defined and not
NextScene ==
    SceneEvents({"rgb.jpg", "rgba.png", "grey.jpg", "missing.jpg"},
                {"plate", "frosting"}, {"plate", "frosting", "glass"},
                {"plate", "glass"}, MaxNames)

SpecScene == Init /\ [][NextScene]_vars

\* one load more than there are slots
NextFill ==
    SceneEvents({"rgb.jpg", "missing.jpg"}, {"plate"}, {"plate", "glass"},
                {"plate", "glass"}, MaxTextureSlots + 1)

SpecFill == Init /\ [][NextFill]_vars

-----------------------------------------------------------------------------
(* Properties. *)

Lines(out) == {out[i] : i \in DOMAIN out}

\* C1: in every reachable state, whatever cursor, scroll and frame events
\* led to it, pitch lies within [-89, 89] degrees inclusive.
PitchWithinLimits == -PitchLimit <= pitch /\ pitch <= PitchLimit

\* a cursor event that would have taken the pitch beyond 89 degrees
PitchClampedWitness ==
    /\ call.op = "cursor"
    /\ pitch = PitchLimit
    /\ call.y = 0

\* C2: in every reachable state, whatever scroll, cursor and frame events
\* led to it, movementSpeed lies within [0.1, 10.0] inclusive.
SpeedWithinLimits == SpeedMin <= movementSpeed /\ movementSpeed <= SpeedMax

\* a scroll event that would have taken the speed beyond 10.0
SpeedClampedWitness ==
    /\ call.op = "scroll"
    /\ call.yoffset > 0
    /\ movementSpeed = SpeedMax

\* C3: the first cursor event leaves yaw and pitch at their values before it
\* (-90 and 0), records its coordinates as the baseline and clears the
\* first-sample flag.
FirstSampleSuppressed ==
    [][(firstMouse /\ call'.op = "cursor") =>
          /\ yaw' = yaw /\ yaw' = -90 * DegUnit
          /\ pitch' = pitch /\ pitch' = 0
          /\ lastX' = call'.x
          /\ lastY' = call'.y
          /\ firstMouse' = FALSE]_vars

\* after a first cursor event away from the initial baseline
FirstSampleWitness ==
    /\ call.op = "cursor"
    /\ lastX = 600 /\ lastY = 900
    /\ yaw = -90 * DegUnit /\ pitch = 0
    /\ firstMouse = FALSE

\* C4: the first cursor event leaves the camera front as it was before the
\* event (the initial seed).
FirstSampleKeepsFront ==
    [][(firstMouse /\ call'.op = "cursor") => cameraFront' = cameraFront]_vars

\* C5: when P is reported pressed to a frame and was reported pressed to the
\* frame before it, the frame neither logs the switch to Perspective nor sets
\* the mode to Perspective; the same for O and Orthographic. The previous-state
\* flag of each key is the key's state at the last frame.
EdgeTriggeredSwitch ==
    [][(call'.op = "frame") =>
          /\ pKeyPressed' = ("P" \in call'.keys)
          /\ oKeyPressed' = ("O" \in call'.keys)
          /\ (pKeyPressed /\ "P" \in call'.keys) =>
                /\ LogPerspective \notin Lines(console')
                /\ (~orthographicProjection' => ~orthographicProjection)
          /\ (oKeyPressed /\ "O" \in call'.keys) =>
                /\ LogOrthographic \notin Lines(console')
                /\ (orthographicProjection' => orthographicProjection)]_vars

\* a frame that finds P still held after O switched the mode: it stays silent
\* and leaves the mode Orthographic
HeldKeyWitness ==
    /\ call.op = "frame"
    /\ "P" \in call.keys
    /\ pKeyPressed
    /\ console = <<>>
    /\ orthographicProjection

\* C6: a cursor event that is not the first sample adds 0.1 degree per pixel
\* of horizontal move to yaw, without clamp or wrap, adds 0.1 degree per pixel
\* of upward move to pitch and clamps it to [-89, 89], recomputes the front
\* from the new angles and records the sample as the new baseline; a move of
\* 100 pixels to the right raises yaw by 10 degrees and keeps pitch.
CursorMoveUpdatesOrientation ==
    [][(~firstMouse /\ call'.op = "cursor") =>
          /\ 10 * (yaw' - yaw) = DegUnit * (call'.x - lastX)
          /\ pitch' = Min(89 * DegUnit,
                          Max(-89 * DegUnit,
                              pitch + (DegUnit * (lastY - call'.y)) \div 10))
          /\ cameraFront' = Normalize(Direction(yaw', pitch'))
          /\ lastX' = call'.x
          /\ lastY' = call'.y
          /\ (call'.x - lastX = 100 /\ call'.y = lastY) =>
                (yaw' = yaw + 10 * DegUnit /\ pitch' = pitch)]_vars

\* the baseline taken at x = 500, then a move of 100 pixels to the right
HorizontalMoveWitness ==
    /\ call.op = "cursor"
    /\ call.x = 600
    /\ yaw = -80 * DegUnit
    /\ pitch = 0
    /\ cameraFront = Normalize(Direction(-80 * DegUnit, 0))

\* C7: a scroll event of vertical offset d sets movementSpeed to
\* min(10.0, max(0.1, movementSpeed + 0.5 d)) and leaves the field of view
\* (45 degrees), position, yaw, pitch, front and projection mode as they were.
ScrollSetsSpeedOnly ==
    [][(call'.op = "scroll") =>
          /\ movementSpeed' =
                Min(10 * SpeedUnit,
                    Max(SpeedUnit \div 10,
                        movementSpeed + (SpeedUnit * call'.yoffset) \div 2))
          /\ fov' = fov /\ fov' = 45 * DegUnit
          /\ cameraPos' = cameraPos
          /\ yaw' = yaw /\ pitch' = pitch
          /\ cameraFront' = cameraFront
          /\ orthographicProjection' = orthographicProjection]_vars

\* a scroll in Orthographic mode, after the mouse has turned the camera, that
\* lowers the speed without reaching the clamp
ScrollWitness ==
    /\ call.op = "scroll"
    /\ call.yoffset = -3
    /\ movementSpeed = 10
    /\ orthographicProjection
    /\ yaw = -80 * DegUnit

\* C8: a step of any handler but the scroll callback leaves movementSpeed as
\* it was.
SpeedChangedByScrollOnly ==
    [][(call'.op # "scroll") => movementSpeed' = movementSpeed]_vars

\* a frame of half a second with W held, after a scroll lowered the speed and
\* a cursor event turned the camera
SpeedKeptWitness ==
    /\ call.op = "frame"
    /\ call.keys = {"W"}
    /\ deltaTime = 5
    /\ movementSpeed = SpeedMin
    /\ yaw = -80 * DegUnit
    /\ cameraPos # <<0, 3 * PosUnit, 12 * PosUnit>>

\* C9: a frame whose elapsed time is zero leaves the position as it was,
\* whatever movement keys are held.
NoMoveInZeroTime ==
    [][(call'.op = "frame" /\ deltaTime' = 0) => cameraPos' = cameraPos]_vars

\* a frame of no duration with all six movement keys held, after an earlier
\* frame has moved the camera
ZeroTimeWitness ==
    /\ call.op = "frame"
    /\ deltaTime = 0
    /\ call.keys = MoveKeys
    /\ cameraPos # <<0, 3 * PosUnit, 12 * PosUnit>>

\* the two vectors differ by at most tol in each coordinate
Close(a, b, tol) ==
    \A i \in 1..3 : a[i] - b[i] <= tol /\ b[i] - a[i] <= tol

\* C10: a frame with only W held moves the position by movementSpeed times
\* the elapsed time times the normalized front, in every reachable state, the
\* initial one included (up to one unit of the front's representation).
WMovesAlongUnitFront ==
    [][(call'.op = "frame" /\ call'.keys = {"W"}) =>
          Close(VSub(cameraPos', cameraPos),
                VScale(movementSpeed * deltaTime', Normalize(cameraFront)),
                movementSpeed * deltaTime')]_vars

\* the uniform of the given name among those the last handler sent
Sent(name) == (CHOOSE i \in DOMAIN uniforms : uniforms[i].name = name)

\* C11 as stated: a frame that directly follows a frame, with the same keys
\* held, sends the same view and projection matrices and leaves position,
\* front, yaw, pitch and mode as they were.
SuccessiveFramesIdentical ==
    [][(call.op = "frame" /\ call'.op = "frame" /\ call'.keys = call.keys) =>
          /\ uniforms' = uniforms
          /\ cameraPos' = cameraPos /\ cameraFront' = cameraFront
          /\ yaw' = yaw /\ pitch' = pitch
          /\ orthographicProjection' = orthographicProjection]_vars

\* C11 as amended: the same, provided no time has elapsed between the two
\* frames or no movement key is held.
SuccessiveStillFramesIdentical ==
    [][(/\ call.op = "frame" /\ call'.op = "frame" /\ call'.keys = call.keys
        /\ (call'.time = call.time \/ call'.keys \cap MoveKeys = {})) =>
          /\ uniforms' = uniforms
          /\ cameraPos' = cameraPos /\ cameraFront' = cameraFront
          /\ yaw' = yaw /\ pitch' = pitch
          /\ orthographicProjection' = orthographicProjection]_vars

\* frames only since creation: one of half a second that moved the camera
\* along the front and switched to Orthographic, then one of no duration with
\* the same keys held
SuccessiveFramesWitness ==
    /\ call.op = "frame"
    /\ call.keys = {"W", "O", "ESCAPE"}
    /\ call.time = 5 /\ deltaTime = 0
    /\ firstMouse /\ movementSpeed = 25
    /\ cameraPos = <<0, 3 * PosUnit - 25000, 12 * PosUnit - 125000>>
    /\ console = <<>>
    /\ orthographicProjection

\* C12 as stated: the projection a frame sends is the orthographic one, of
\* half-height 15 scaled by the aspect ratio, near 0.1 and far 100, exactly
\* when the mode is Orthographic after the frame's key processing, and else the
\* perspective one of 45 degrees, near 0.1 and far 100; the mode is Perspective
\* before any frame.
ProjectionHalfHeight15 ==
    /\ (call.op = "none") => ~orthographicProjection
    /\ (call.op = "frame") =>
          LET p == uniforms[Sent("projection")].value
          IN  /\ (p.kind = "orthographic") = orthographicProjection
              /\ (p.kind = "perspective") = ~orthographicProjection
              /\ p.near = VecUnit \div 10 /\ p.far = 100 * VecUnit
              /\ orthographicProjection =>
                    /\ p.top = 15 * VecUnit /\ p.bottom = -15 * VecUnit
                    /\ p.right * WINDOW_HEIGHT = 15 * VecUnit * WINDOW_WIDTH
                    /\ p.left = -p.right
              /\ ~orthographicProjection =>
                    /\ p.fovy = 45 * DegUnit
                    /\ p.aspect = <<WINDOW_WIDTH, WINDOW_HEIGHT>>

\* C12 as amended: the same with the orthographic volume of full height 15,
\* that is half-height 7.5 and half-width 7.5 times the aspect ratio.
ProjectionFollowsMode ==
    /\ (call.op = "none") => ~orthographicProjection
    /\ (call.op = "frame") =>
          LET p == uniforms[Sent("projection")].value
          IN  /\ (p.kind = "orthographic") = orthographicProjection
              /\ (p.kind = "perspective") = ~orthographicProjection
              /\ p.near = VecUnit \div 10 /\ p.far = 100 * VecUnit
              /\ orthographicProjection =>
                    /\ 2 * p.top = 15 * VecUnit /\ p.bottom = -p.top
                    /\ 2 * p.right * WINDOW_HEIGHT = 15 * VecUnit * WINDOW_WIDTH
                    /\ p.left = -p.right
              /\ ~orthographicProjection =>
                    /\ p.fovy = 45 * DegUnit
                    /\ p.aspect = <<WINDOW_WIDTH, WINDOW_HEIGHT>>

\* a frame in Orthographic mode in which the O key is no longer held
OrthographicFrameWitness ==
    /\ call.op = "frame"
    /\ call.keys = {}
    /\ orthographicProjection
    /\ uniforms[Sent("projection")].value.kind = "orthographic"

\* C13: a frame that finds the exit key pressed sets the window's close flag
\* and still moves the camera, handles the projection keys and sends the
\* matrices as it would without the exit key; no step clears the flag.
ExitKeyOnlySetsFlag ==
    [][/\ windowShouldClose => windowShouldClose'
       /\ (call'.op = "frame" /\ "ESCAPE" \in call'.keys) =>
             /\ windowShouldClose'
             /\ cameraPos' = Moved(cameraPos, call'.keys \ {"ESCAPE"},
                                   movementSpeed * (call'.time - lastFrame))
             /\ pKeyPressed' = ("P" \in call'.keys)
             /\ oKeyPressed' = ("O" \in call'.keys)
             /\ ("O" \in call'.keys /\ ~oKeyPressed) =>
                   (orthographicProjection' /\ LogOrthographic \in Lines(console'))
             /\ Len(uniforms') = 3]_vars

\* the exit key found pressed together with W and O in a frame of half a
\* second, and a later frame without it: the camera has moved, the mode has
\* switched and the flag is still set
ExitKeyWitness ==
    /\ call.op = "frame"
    /\ call.keys = {}
    /\ windowShouldClose
    /\ orthographicProjection
    /\ cameraPos # <<0, 3 * PosUnit, 12 * PosUnit>>

\* C16: the two previous-state flags follow their own key only; a frame that
\* finds O newly pressed switches to Orthographic even while P is held; the
\* mode leaves Orthographic only in a frame that finds P pressed after a frame
\* that found it released, and leaves Perspective only in a frame that finds O
\* pressed after a frame that found it released.
IndependentKeyEdges ==
    [][(call'.op = "frame") =>
          /\ pKeyPressed' = ("P" \in call'.keys)
          /\ oKeyPressed' = ("O" \in call'.keys)
          /\ ("O" \in call'.keys /\ ~oKeyPressed) => orthographicProjection'
          /\ (orthographicProjection /\ ~orthographicProjection') =>
                ("P" \in call'.keys /\ ~pKeyPressed)
          /\ (~orthographicProjection /\ orthographicProjection') =>
                ("O" \in call'.keys /\ ~oKeyPressed)]_vars

\* P held throughout, O pressed and released again: the mode is still
\* Orthographic in a frame that finds P alone
HeldPAfterOWitness ==
    /\ call.op = "frame"
    /\ call.keys = {"P"}
    /\ pKeyPressed /\ ~oKeyPressed
    /\ orthographicProjection
    /\ deltaTime = 5

\* C17: a frame takes the elapsed time from the clock first, then processes
\* the keys with it, then sends the matrices: the view matrix and viewPosition
\* it sends are those of the position after its key processing, and the
\* projection that of the mode after it.
FrameOrder ==
    [][(call'.op = "frame") =>
          /\ deltaTime' = call'.time - lastFrame
          /\ lastFrame' = call'.time
          /\ cameraPos' = Moved(cameraPos, call'.keys, movementSpeed * deltaTime')
          /\ uniforms'[Sent("view")'].value.eye = cameraPos'
          /\ uniforms'[Sent("view")'].value.center
                = VAdd(cameraPos', VScale(PosUnit \div VecUnit, cameraFront'))
          /\ uniforms'[Sent("viewPosition")'].value = cameraPos'
          /\ (uniforms'[Sent("projection")'].value.kind = "orthographic")
                = orthographicProjection']_vars

\* a frame of half a second that moves the camera and switches the mode
FrameOrderWitness ==
    /\ call.op = "frame"
    /\ call.keys = {"W", "O", "ESCAPE"}
    /\ deltaTime = 5
    /\ console = <<LogOrthographic>>
    /\ uniforms[Sent("viewPosition")].value = cameraPos
    /\ cameraPos # <<0, 3 * PosUnit, 12 * PosUnit>>
    /\ uniforms[Sent("projection")].value.kind = "orthographic"

-----------------------------------------------------------------------------
(* The scene manager's texture and material tables *)

\* the slots in use that hold the tag
SlotsOf(tag) == {i \in 0 .. m_loadedTextures - 1 : m_textureIDs[i].tag = tag}

TextureTags == {"plate", "frosting", "glass"}
MaterialTags == {"plate", "glass"}

\* C14 as stated: a CreateGLTexture call that returns false leaves the count
\* of registered textures and every slot as they were, and a lookup of the
\* failed tag after it returns -1.
FailedLoadTagNotFound ==
    [][(scene'.op = "CreateGLTexture" /\ ~scene'.ok) =>
          /\ m_loadedTextures' = m_loadedTextures
          /\ m_textureIDs' = m_textureIDs
          /\ \A t \in TextureTags :
                (t = scene'.tag) => (FindTextureSlot(t)' = -1)]_vars

\* C14 as amended: a CreateGLTexture call that returns false leaves the count
\* and every slot as they were, and a lookup of any tag after it returns what
\* it returned before the call: -1 for the failed tag unless a load under that
\* tag had succeeded.
FailedLoadKeepsTable ==
    [][(scene'.op = "CreateGLTexture" /\ ~scene'.ok) =>
          /\ m_loadedTextures' = m_loadedTextures
          /\ m_textureIDs' = m_textureIDs
          /\ \A t \in TextureTags :
                /\ FindTextureSlot(t)' = FindTextureSlot(t)
                /\ FindTextureID(t)' = FindTextureID(t)
          /\ \A t \in TextureTags :
                (t = scene'.tag /\ SlotsOf(t) = {}) => (FindTextureSlot(t)' = -1)]_vars

\* an image of one channel loaded under a tag that an earlier load registered
FailedLoadWitness ==
    /\ scene.op = "CreateGLTexture"
    /\ scene.filename = "grey.jpg"
    /\ ~scene.ok
    /\ scene.log = <<LogLoaded("grey.jpg", 1), LogChannels(1)>>
    /\ m_loadedTextures = 1
    /\ glNames = 2
    /\ FindTextureSlot(scene.tag) = 0

\* C15: FindTextureSlot returns -1 for every tag that no slot in use holds,
\* the empty registry included, and SetShaderTexture called with such a tag
\* turns texturing on and sets the sampler to -1 without writing a line.
AbsentTextureUsedUnchecked ==
    [][/\ \A t \in TextureTags : (SlotsOf(t) = {}) => (FindTextureSlot(t) = -1)
       /\ (scene'.op = "SetShaderTexture" /\ SlotsOf(scene'.tag) = {}) =>
             /\ scene'.slot = -1
             /\ shader'.bUseTexture
             /\ shader'.objectTexture = -1
             /\ scene'.log = <<>>]_vars

\* SetShaderTexture with a tag never loaded, after a texture had been set
AbsentTextureWitness ==
    /\ scene.op = "SetShaderTexture"
    /\ scene.tag = "glass"
    /\ scene.slot = -1
    /\ shader.bUseTexture
    /\ shader.objectTexture = -1
    /\ m_loadedTextures = 2

\* C18: a successful load fills the next free slot with its tag and leaves the
\* slots before it as they were, no other call changes a slot or the count,
\* and a lookup returns the lowest slot holding the tag and the ID stored in
\* that slot, or -1 when no slot holds it.
LookupReturnsEarliest ==
    [][/\ (scene'.op = "CreateGLTexture" /\ scene'.ok) =>
             /\ m_loadedTextures' = m_loadedTextures + 1
             /\ m_textureIDs'[m_loadedTextures].tag = scene'.tag
             /\ \A i \in 0 .. m_loadedTextures - 1 : m_textureIDs'[i] = m_textureIDs[i]
             /\ \A i \in 0 .. m_loadedTextures - 1 :
                   m_textureIDs'[i].ID # m_textureIDs'[m_loadedTextures].ID
       /\ ~(scene'.op = "CreateGLTexture" /\ scene'.ok) =>
             /\ m_loadedTextures' = m_loadedTextures
             /\ m_textureIDs' = m_textureIDs
       /\ (scene'.op = "FindTexture") =>
             IF SlotsOf(scene'.tag) = {}
             THEN scene'.slot = -1 /\ scene'.id = -1
             ELSE /\ scene'.slot \in SlotsOf(scene'.tag)
                  /\ \A j \in SlotsOf(scene'.tag) : scene'.slot <= j
                  /\ scene'.id = m_textureIDs[scene'.slot].ID]_vars

\* a failed load, then two loads under the same tag, then the lookup
DuplicateTagWitness ==
    /\ scene.op = "FindTexture"
    /\ scene.tag = "plate"
    /\ m_loadedTextures = 2
    /\ m_textureIDs[0] = [ID |-> 2, tag |-> "plate"]
    /\ m_textureIDs[1] = [ID |-> 3, tag |-> "plate"]
    /\ scene.slot = 0
    /\ scene.id = 2

\* the material table has no entry of the tag
NoMaterialOf(tag) ==
    \A i \in DOMAIN m_objectMaterials : m_objectMaterials[i].tag # tag

\* C19: for a tag absent from the material table FindMaterial returns false
\* and leaves the caller's record as it was, SetShaderMaterial sets no
\* uniform, and the shader's material values change only in a
\* SetShaderMaterial call whose tag was found.
AbsentMaterialWritesNothing ==
    [][/\ \A t \in MaterialTags, u \in Uninitialized :
             NoMaterialOf(t) => (FindMaterial(t, u) = [bFound |-> FALSE, material |-> u])
       /\ (scene'.op = "SetShaderMaterial" /\ NoMaterialOf(scene'.tag)) =>
             /\ ~scene'.ok
             /\ scene'.material = scene'.uninit
             /\ shader' = shader
       /\ (shader'.material # shader.material) =>
             (scene'.op = "SetShaderMaterial" /\ scene'.ok)]_vars

\* the plate's material set, then a tag that is not defined asked for with a
\* record holding leftover values
AbsentMaterialWitness ==
    /\ scene.op = "SetShaderMaterial"
    /\ scene.tag = "glass"
    /\ ~scene.ok
    /\ Len(m_objectMaterials) = 8
    /\ scene.uninit.tag = "?"
    /\ scene.material = scene.uninit
    /\ shader.material.shininess = 2400

\* C20: the count of registered textures never exceeds the 16 slots of the
\* array and no load writes outside the array.
SlotsWithinCapacity ==
    /\ m_loadedTextures <= MaxTextureSlots
    /\ fault = "none"

\* C21: a frame that finds P and O both pressed after a frame that found both
\* released writes the Perspective line, then the Orthographic line, and leaves
\* the mode Orthographic whatever it was; a frame that finds both pressed
\* after a frame that found both pressed writes nothing and keeps the mode.
BothKeysPressedTogether ==
    [][(call'.op = "frame" /\ {"P", "O"} \subseteq call'.keys) =>
          /\ (~pKeyPressed /\ ~oKeyPressed) =>
                /\ console' = <<LogPerspective, LogOrthographic>>
                /\ orthographicProjection'
          /\ (pKeyPressed /\ oKeyPressed) =>
                /\ console' = <<>>
                /\ orthographicProjection' = orthographicProjection]_vars

\* both keys found newly pressed in a frame of half a second
BothKeysWitness ==
    /\ call.op = "frame"
    /\ call.keys = {"P", "O"}
    /\ call.time = 5
    /\ console = <<LogPerspective, LogOrthographic>>
    /\ orthographicProjection
    /\ pKeyPressed /\ oKeyPressed

-----------------------------------------------------------------------------
(* The frame's draw sequence *)

\* every load of PrepareScene has succeeded and RenderScene is running
AllLoadsSucceeded ==
    /\ pc > Len(PrepareScene)
    /\ m_loadedTextures =
          Cardinality({i \in DOMAIN PrepareScene : PrepareScene[i].op = "CreateGLTexture"})

\* the uniform values of the material defined under the tag
UniformsOf(tag) ==
    LET i == CHOOSE j \in DOMAIN m_objectMaterials : m_objectMaterials[j].tag = tag
    IN  [m_objectMaterials[i] EXCEPT !.tag = ""]

\* C22: once all loads of PrepareScene have succeeded, every texture tag of
\* RenderScene's draws is held by a slot and every material tag is in the
\* material table; every SetShaderTexture of the draw sequence sets a sampler
\* slot other than -1, every SetShaderMaterial finds its tag, and every mesh
\* is drawn with the slot of its own texture tag and the values of its own
\* material tag.
DrawsUseKnownTags ==
    AllLoadsSucceeded =>
       /\ \A i \in DOMAIN RenderSceneDraws :
             /\ SlotsOf(RenderSceneDraws[i][1]) # {}
             /\ ~NoMaterialOf(RenderSceneDraws[i][2])
       /\ (scene.op = "SetShaderTexture") =>
             (scene.slot # -1 /\ shader.objectTexture = scene.slot)
       /\ (scene.op = "SetShaderMaterial") => scene.ok
       /\ (scene.op \in {RenderSceneDraws[i][3] : i \in DOMAIN RenderSceneDraws}) =>
             /\ scene.ok
             /\ scene.slot \in 0 .. m_loadedTextures - 1
             /\ \E i \in DOMAIN RenderSceneDraws :
                   /\ RenderSceneDraws[i][3] = scene.op
                   /\ m_textureIDs[scene.slot].tag = RenderSceneDraws[i][1]
                   /\ scene.material = UniformsOf(RenderSceneDraws[i][2])

\* the last draw of a frame, the caramel's, with all eight textures loaded
LastDrawWitness ==
    /\ pc = Len(PrepareScene) + 1
    /\ scene.op = "DrawSphereMesh"
    /\ m_loadedTextures = 8
    /\ scene.slot = 7
    /\ m_textureIDs[7].tag = "caramel"
    /\ scene.material.shininess = 6400

=============================================================================
